---- MODULE Spec2Model ----
(***************************************************************************)
(* Model of CarbonStorage (src/app.js): the habit store, the emissions     *)
(* engine, the monthly ledger, the scenario projector and the weekly plan  *)
(* tracker, all persisted as one JSON blob in localStorage.                *)
(*                                                                         *)
(* JavaScript numbers are modelled as tagged values [t, v]: t = "num"      *)
(* carries an integer v, and "NaN", "null", "undef" are the non-numeric     *)
(* outcomes of the arithmetic, of a missing key and of the JSON round trip.*)
(* Emission quantities are fixed point, in grams of CO2e: every product of *)
(* the engine is an integer, and so is every product of the projector for *)
(* the slider positions of SliderRange.                                    *)
(***************************************************************************)
EXTENDS Integers, Sequences, FiniteSets, TLC

VARIABLES
    store,      \* the parsed content of the localStorage item carbonScopeData
    clock,      \* Date.now()
    last,       \* the last store operation: its name, its month, what it returned
                \* (miss: the test that made a goal toggle do nothing)
                \* (again: a recompute that follows a recompute of the same month)
    sliders,    \* the positions of the four sliders of the scenarios page
    preview,    \* the texts updateScenarioResults wrote to the result elements
    tabs,       \* per tab, where its addHabit stands and what it has read
    raced,      \* an addHabit started while another tab's was under way
    today       \* new Date(): the instant in quarter days since 1970-01-01T00:00Z,
                \* and the offset of local time from UTC in quarter days

vars == <<store, clock, last, sliders, preview, tabs, raced, today>>

(* ---------------------------- bounds ---------------------------------- *)
MaxHabits == 2
MaxMs == 3
MsPerMonth == 2
MaxPlans == 2
MaxScenarios == 1
MaxTabAdds == 1

(* ------------------------------- clock -------------------------------- *)
\* Date.now() is the integer clock; new Date().toISOString().slice(0, 7), the
\* month key, is a monotone function of it: MsPerMonth instants make a month
CurrentMonth(ms) == ms \div MsPerMonth

(* ------------------------- JavaScript values -------------------------- *)
Num(n) == [t |-> "num", v |-> n]
NaN == [t |-> "NaN", v |-> 0]
Null == [t |-> "null", v |-> 0]
Undefined == [t |-> "undef", v |-> 0]

IsNum(x) == x.t = "num"

\* ToNumber: null -> 0, undefined -> NaN
ToNumber(x) == IF x.t = "null" THEN Num(0) ELSE IF x.t = "undef" THEN NaN ELSE x

\* a * b on finite operands (the model never multiplies infinities)
Mul(a, b) ==
    LET x == ToNumber(a)
        y == ToNumber(b)
    IN  IF IsNum(x) /\ IsNum(y) THEN Num(x.v * y.v) ELSE NaN

\* a + b on finite operands
Add(a, b) ==
    LET x == ToNumber(a)
        y == ToNumber(b)
    IN  IF IsNum(x) /\ IsNum(y) THEN Num(x.v + y.v) ELSE NaN

\* a - b on finite operands
Sub(a, b) ==
    LET x == ToNumber(a)
        y == ToNumber(b)
    IN  IF IsNum(x) /\ IsNum(y) THEN Num(x.v - y.v) ELSE NaN

\* the integer nearest to a / b (b > 0), halves away from zero
RoundDiv(a, b) ==
    IF a >= 0 THEN (2 * a + b) \div (2 * b) ELSE -((2 * (-a) + b) \div (2 * b))

\* the text of a number, or of NaN and the infinities
Text(s, v) == [t |-> "text", s |-> s, v |-> v]

\* one kilogram in the model's unit
Kg == 10 * 100

\* x.toFixed(1) of a quantity: its text, with v in tenths of a kilogram
ToFixed1(x) ==
    LET n == ToNumber(x)
    IN  IF IsNum(n) THEN Text("fixed1", RoundDiv(n.v, Kg \div 10)) ELSE Text("NaN", 0)

\* (a / b * 100).toFixed(1): the text of a percentage, v in tenths of a percent
PercentToFixed1(a, b) ==
    LET x == ToNumber(a)
        y == ToNumber(b)
    IN  CASE ~(IsNum(x) /\ IsNum(y)) -> Text("NaN", 0)
          [] y.v = 0 /\ x.v = 0 -> Text("NaN", 0)
          [] y.v = 0 /\ x.v > 0 -> Text("Infinity", 0)
          [] y.v = 0 /\ x.v < 0 -> Text("-Infinity", 0)
          [] y.v > 0 -> Text("fixed1", RoundDiv(1000 * x.v, y.v))
          [] OTHER -> Text("fixed1", RoundDiv(-1000 * x.v, -y.v))

\* x || 0 : every falsy number (0, NaN, null, undefined) becomes 0
OrZero(x) == IF IsNum(x) /\ x.v # 0 THEN x ELSE Num(0)

\* JSON.parse(JSON.stringify(x)) of a number-valued property: NaN is
\* written as null, an undefined property is dropped and reads as undefined
JsonNum(x) ==
    IF x.t = "NaN" THEN Null ELSE x

(* -------------------------------- dates ------------------------------- *)
\* a Date is the instant utc, in quarter days since 1970-01-01T00:00Z, read in
\* a local time that is offset quarter days ahead of UTC (no daylight saving)
LocalDay(date) == (date.utc + date.offset) \div 4

\* getDay(): 0 is Sunday, 6 is Saturday; 1970-01-01 was a Thursday
getDay(date) == (LocalDay(date) + 4) % 7

\* setDate(getDate() + days): the local calendar day moves, over the ends of
\* months too, and the local time of day stays
AddDays(date, days) == [date EXCEPT !.utc = @ + 4 * days]

\* toISOString().split('T')[0]: the calendar day in UTC, as days since 1970-01-01
IsoDate(date) == date.utc \div 4

\* the Date that addWeeklyPlan calls monday
MondayOf(date) ==
    LET dayOfWeek == getDay(date)
        diff == (IF dayOfWeek = 0 THEN -6 ELSE 1) - dayOfWeek
    IN  AddDays(date, diff)

\* the Date that addWeeklyPlan calls sunday
SundayOf(date) == AddDays(MondayOf(date), 6)

\* Tuesday 1970-01-13, 12:00, on a host whose local time is UTC
TuesdayNoon == [utc |-> 4 * 12 + 2, offset |-> 0]

(* --------------------------- factor tables ---------------------------- *)
\* kg CO2e per unit, in grams (0.12 is 120)
EMISSION_FACTORS ==
    [transport |-> [car_gasoline |-> 120, car_ethanol |-> 50, motorcycle |-> 80,
                    bus |-> 30, subway |-> 20, bicycle |-> 0, walking |-> 0,
                    airplane |-> 180],
     energy    |-> [electricity |-> 150, natural_gas |-> 2000, lpg |-> 1500],
     food      |-> [beef |-> 27000, chicken |-> 6900, pork |-> 12100, fish |-> 5000,
                    dairy |-> 3200, vegetables |-> 2000, grains |-> 1500],
     shopping  |-> [electronics |-> 50000, clothing |-> 15000, furniture |-> 100000,
                    plastic |-> 5000, paper |-> 2000],
     waste     |-> [landfill |-> 500, recycled |-> 100, composted |-> 50]]

FREQUENCY_FACTORS ==
    [daily |-> 30, weekly_1 |-> 4, weekly_2 |-> 8, weekly_3 |-> 12,
     weekly_5 |-> 20, monthly_1 |-> 1, monthly_2 |-> 2, monthly_4 |-> 4]

\* EMISSION_FACTORS[cat][type]: undefined when the key is missing
EmissionFactor(cat, type) ==
    IF type \in DOMAIN EMISSION_FACTORS[cat]
    THEN Num(EMISSION_FACTORS[cat][type])
    ELSE Undefined

\* FREQUENCY_FACTORS[frequency] || 1
FreqFactor(frequency) ==
    IF frequency \in DOMAIN FREQUENCY_FACTORS
    THEN OrZero(Num(FREQUENCY_FACTORS[frequency]))
    ELSE Num(1)

(* ------------------------------ storage ------------------------------- *)
\* the blob written by init()
InitialData ==
    [habits |-> <<>>, emissions |-> <<>>, scenarios |-> <<>>,
     weeklyPlans |-> <<>>, currentPlan |-> Null]

JsonHabit(h) ==
    [h EXCEPT !.quantity = JsonNum(@), !.distance = JsonNum(@),
              !.consumption = JsonNum(@), !.emissions = JsonNum(@)]

JsonAggregate(e) ==
    [e EXCEPT !.total = JsonNum(@),
              !.byCategory = [c \in DOMAIN e.byCategory |-> JsonNum(e.byCategory[c])]]

JsonScenario(sc) ==
    [sc EXCEPT !.baselineEmissions = JsonNum(@), !.projectedEmissions = JsonNum(@),
               !.reductionKg = JsonNum(@)]

\* JSON.parse(JSON.stringify(data)): what saveData followed by getData yields
Json(data) ==
    [data EXCEPT
        !.habits = [i \in DOMAIN data.habits |-> JsonHabit(data.habits[i])],
        !.emissions = [i \in DOMAIN data.emissions |-> JsonAggregate(data.emissions[i])],
        !.scenarios = [i \in DOMAIN data.scenarios |-> JsonScenario(data.scenarios[i])]]

\* saveData(data): the blob that localStorage holds afterwards
saveData(data) == Json(data)

\* getData() on the blob s
getData(s) == s

\* getHabits()
getHabits(s) == getData(s).habits

(* -------------------------- emissions engine -------------------------- *)
\* an engine that takes the weekly quantities of food and waste as monthly
HabitEmissions_WeeklyAsMonthly(habit) ==
    CASE habit.category = "transport" ->
            Mul(Mul(habit.distance, FreqFactor(habit.frequency)),
                EmissionFactor("transport", habit.type))
      [] habit.category = "energy" ->
            Mul(habit.consumption, EmissionFactor("energy", habit.type))
      [] OTHER -> Mul(habit.quantity, EmissionFactor(habit.category, habit.type))

\* the body of the forEach callback: the habit's monthly emissions
HabitEmissions(habit) ==
    CASE habit.category = "transport" ->
            Mul(Mul(habit.distance, FreqFactor(habit.frequency)),
                EmissionFactor("transport", habit.type))
      [] habit.category = "energy" ->
            Mul(habit.consumption, EmissionFactor("energy", habit.type))
      [] habit.category = "food" ->
            Mul(Mul(habit.quantity, Num(4)), EmissionFactor("food", habit.type))
      [] habit.category = "shopping" ->
            Mul(habit.quantity, EmissionFactor("shopping", habit.type))
      [] habit.category = "waste" ->
            Mul(Mul(habit.quantity, Num(4)), EmissionFactor("waste", habit.type))
      [] OTHER -> Num(0)

\* habit.emissions = emissions, on the engine's own parsed copy of the habits
AnnotateHabits(habits) ==
    [i \in DOMAIN habits |-> [habits[i] EXCEPT !.emissions = HabitEmissions(habits[i])]]

\* emissionsByCategory[cat] after the forEach: 0 += each habit of cat, in order
RECURSIVE CategorySum(_, _)
CategorySum(habits, cat) ==
    IF habits = <<>> THEN Num(0)
    ELSE LET n == Len(habits)
             rest == CategorySum(SubSeq(habits, 1, n - 1), cat)
         IN  IF habits[n].category = cat
             THEN Add(rest, HabitEmissions(habits[n]))
             ELSE rest

EmissionsByCategory(habits) ==
    [transport |-> CategorySum(habits, "transport"),
     energy    |-> CategorySum(habits, "energy"),
     food      |-> CategorySum(habits, "food"),
     shopping  |-> CategorySum(habits, "shopping"),
     waste     |-> CategorySum(habits, "waste")]

\* Object.values(emissionsByCategory).reduce((a, b) => a + b, 0)
TotalEmissions(byCategory) ==
    Add(Add(Add(Add(Add(Num(0), byCategory.transport), byCategory.energy),
                byCategory.food), byCategory.shopping), byCategory.waste)

\* data.emissions.findIndex(e => e.month === currentMonth); 0 stands for -1
FindMonthIndex(emissions, month) ==
    IF \E i \in DOMAIN emissions : emissions[i].month = month
    THEN CHOOSE i \in DOMAIN emissions :
            /\ emissions[i].month = month
            /\ \A j \in 1..(i - 1) : emissions[j].month # month
    ELSE 0

\* an upsert that appends even when the month is already in the ledger
UpsertAggregate_AlwaysAppend(emissions, rec) == Append(emissions, rec)

\* an upsert that, finding no record of the month, overwrites the last record
UpsertAggregate_OverwriteLast(emissions, rec) ==
    IF \E i \in DOMAIN emissions : emissions[i].month = rec.month
    THEN [emissions EXCEPT ![CHOOSE i \in DOMAIN emissions : emissions[i].month = rec.month] = rec]
    ELSE IF emissions = <<>> THEN <<rec>>
         ELSE [emissions EXCEPT ![Len(emissions)] = rec]

\* replace the record of the month in place, or append it
UpsertAggregate(emissions, rec) ==
    LET existingIndex == FindMonthIndex(emissions, rec.month)
    IN  IF existingIndex # 0
        THEN [emissions EXCEPT ![existingIndex] = rec]
        ELSE Append(emissions, rec)

\* the record that calculateEmissions builds from the habits it parsed
AggregateOf(parsed, month) ==
    LET habits == AnnotateHabits(parsed)
        emissionsByCategory == EmissionsByCategory(habits)
    IN  [month |-> month,
         total |-> TotalEmissions(emissionsByCategory),
         byCategory |-> emissionsByCategory]

\* the aggregate that calculateEmissions builds for the blob s in month
Aggregate(s, month) == AggregateOf(getHabits(s), month)

\* a recompute that also rebases the saved scenarios on the new total
calculateEmissions_RebaseScenarios(s, month) ==
    LET data == getData(s)
    IN  saveData([data EXCEPT
            !.emissions = UpsertAggregate(@, Aggregate(s, month)),
            !.scenarios = [i \in DOMAIN @ |->
                              [@[i] EXCEPT !.baselineEmissions = Aggregate(s, month).total]]])

\* calculateEmissions(): the blob after the call.  The annotated habits are
\* the engine's own copy; data is parsed again from storage before the save.
calculateEmissions(s, month) ==
    LET data == getData(s)
    IN  saveData([data EXCEPT !.emissions = UpsertAggregate(@, Aggregate(s, month))])

\* getCurrentEmissions(): the record of the month, or the empty default
getCurrentEmissions(s, month) ==
    LET data == getData(s)
        i == FindMonthIndex(data.emissions, month)
    IN  IF i # 0 THEN data.emissions[i]
        ELSE [month |-> month, total |-> Num(0),
              byCategory |-> [transport |-> Undefined, energy |-> Undefined,
                              food |-> Undefined, shopping |-> Undefined,
                              waste |-> Undefined]]

\* getMonthlyHistory()
getMonthlyHistory(s) == getData(s).emissions

(* ----------------------------- habit store ---------------------------- *)
\* the habit objects the five forms of setupHabitForms build
TransportHabit(type, distance, frequency) ==
    [id |-> 0, category |-> "transport", type |-> type, quantity |-> Num(distance),
     distance |-> Num(distance), consumption |-> Undefined, frequency |-> frequency,
     emissions |-> Undefined]

EnergyHabit(type, consumption) ==
    [id |-> 0, category |-> "energy", type |-> type, quantity |-> Num(consumption),
     distance |-> Undefined, consumption |-> Num(consumption), frequency |-> "",
     emissions |-> Undefined]

QuantityHabit(category, type, quantity) ==
    [id |-> 0, category |-> category, type |-> type, quantity |-> Num(quantity),
     distance |-> Undefined, consumption |-> Undefined, frequency |-> "",
     emissions |-> Undefined]

\* the habits offered to addHabit: one per category with known keys, and
\* two whose type or frequency is not a key of the tables
HabitInputs ==
    { TransportHabit("car_gasoline", 20, "daily"),
      QuantityHabit("food", "beef", 1),
      TransportHabit("helicopter", 10, "daily"),
      TransportHabit("car_gasoline", 10, "yearly") }

\* a push that drops the habits already in the collection
PushHabit_Replace(data, habit) == [data EXCEPT !.habits = <<habit>>]

\* data.habits.push(habit)
PushHabit(data, habit) == [data EXCEPT !.habits = Append(@, habit)]

\* addHabit(habit): the blob after the call
addHabit(s, habit, now, month) ==
    LET data == getData(s)
        stored == [habit EXCEPT !.id = now]
        saved == saveData(PushHabit(data, stored))
    IN  calculateEmissions(saved, month)

\* the habits without those whose id is id
RECURSIVE FilterId(_, _)
FilterId(habits, id) ==
    IF habits = <<>> THEN <<>>
    ELSE LET n == Len(habits)
             rest == FilterId(SubSeq(habits, 1, n - 1), id)
         IN  IF habits[n].id # id THEN Append(rest, habits[n]) ELSE rest

\* deleteHabit(id): the blob after the call
deleteHabit(s, id, month) ==
    LET data == getData(s)
        saved == saveData([data EXCEPT !.habits = FilterId(@, id)])
    IN  calculateEmissions(saved, month)

(* ------------------------------ actions ------------------------------- *)
Init ==
    /\ store = InitialData
    /\ clock = 1
    /\ last = [op |-> "init"]
    /\ sliders = [carReduction |-> 0, meatReduction |-> 0, energyReduction |-> 0,
                  recyclingIncrease |-> 0]
    /\ preview = [shown |-> FALSE]
    /\ tabs = <<>>
    /\ raced = FALSE
    /\ today = TuesdayNoon

\* time passes between two operations
Tick ==
    /\ clock < MaxMs
    /\ clock' = clock + 1
    /\ UNCHANGED <<store, last, sliders, preview, tabs, raced, today>>

AddHabit(h) ==
    /\ Len(store.habits) < MaxHabits
    /\ store' = addHabit(store, h, clock, CurrentMonth(clock))
    /\ last' = [op |-> "addHabit", month |-> CurrentMonth(clock),
                ret |-> [h EXCEPT !.id = clock]]
    /\ UNCHANGED <<clock, sliders, preview, tabs, raced, today>>

DeleteHabit(id) ==
    /\ store' = deleteHabit(store, id, CurrentMonth(clock))
    /\ last' = [op |-> "deleteHabit", month |-> CurrentMonth(clock), ret |-> Undefined]
    /\ UNCHANGED <<clock, sliders, preview, tabs, raced, today>>

CalculateEmissions ==
    /\ store' = calculateEmissions(store, CurrentMonth(clock))
    /\ last' = [op |-> "calculateEmissions", month |-> CurrentMonth(clock),
                ret |-> Aggregate(store, CurrentMonth(clock)).total,
                again |-> (last.op = "calculateEmissions"
                           /\ last.month = CurrentMonth(clock))]
    /\ UNCHANGED <<clock, sliders, preview, tabs, raced, today>>

Next ==
    \/ Tick
    \/ \E h \in HabitInputs : AddHabit(h)
    \/ \E id \in 1..MaxMs : DeleteHabit(id)
    \/ CalculateEmissions

Spec == Init /\ [][Next]_vars

(* -------------------------- scenario projector ------------------------ *)
\* the positions of the four sliders (the value attribute, read by parseInt)
SliderRange ==
    [carReduction |-> {0, 50}, meatReduction |-> {0, 7},
     energyReduction |-> {0, 100}, recyclingIncrease |-> {0, 100}]

\* (byCategory.transport || 0) * 0.5 * carReduction, carReduction = value / 100
TransportReduction(current, sl) ==
    Num((OrZero(current.byCategory.transport).v * 5 * sl.carReduction) \div 1000)

\* meatDays * 0.5 * 4
FoodReduction(sl) == Num(sl.meatReduction * 2 * Kg)

\* (byCategory.energy || 0) * energyReduction
EnergyReductionKg(current, sl) ==
    Num((OrZero(current.byCategory.energy).v * sl.energyReduction) \div 100)

\* (byCategory.waste || 0) * 0.8 * recyclingIncrease
WasteReduction(current, sl) ==
    Num((OrZero(current.byCategory.waste).v * 8 * sl.recyclingIncrease) \div 1000)

\* projectedTotal after the four subtractions
ProjectedTotal(current, sl) ==
    Sub(Sub(Sub(Sub(OrZero(current.total), TransportReduction(current, sl)),
                FoodReduction(sl)), EnergyReductionKg(current, sl)),
        WasteReduction(current, sl))

\* a display that does not clamp
MaxZero_NoClamp(x) == x

\* Math.max(0, x)
MaxZero(x) == IF IsNum(x) THEN (IF x.v > 0 THEN x ELSE Num(0)) ELSE NaN

\* updateScenarioResults(): the texts written to the result elements
updateScenarioResults(s, month, sl) ==
    LET currentEmissions == getCurrentEmissions(s, month)
        totalEmissions == OrZero(currentEmissions.total)
        projectedTotal == MaxZero(ProjectedTotal(currentEmissions, sl))
        reductionKg == Sub(totalEmissions, projectedTotal)
    IN  [shown |-> TRUE,
         currentEmissions |-> ToFixed1(totalEmissions),
         projectedEmissions |-> ToFixed1(projectedTotal),
         reductionPercent |-> IF totalEmissions.v > 0
                              THEN PercentToFixed1(reductionKg, totalEmissions)
                              ELSE Num(0),
         reductionKg |-> ToFixed1(reductionKg)]

\* reductionPercent of the save path: no test of the divisor
SavedReductionPercent(total, projectedTotal) ==
    PercentToFixed1(Sub(total, projectedTotal), total)

\* the scenario object the createScenarioBtn handler builds; the fractions
\* carReduction, energyReduction and recyclingIncrease are kept in 1/100, and
\* the description text is the tuple of the four values it is made of
BuildScenario(s, month, sl, name) ==
    LET currentEmissions == getCurrentEmissions(s, month)
        projectedTotal == ProjectedTotal(currentEmissions, sl)
    IN  [id |-> 0, createdAt |-> 0, name |-> name,
         description |-> <<sl.carReduction, sl.meatReduction, sl.energyReduction,
                           sl.recyclingIncrease>>,
         baselineEmissions |-> currentEmissions.total,
         projectedEmissions |-> projectedTotal,
         reductionPercent |-> SavedReductionPercent(currentEmissions.total, projectedTotal),
         reductionKg |-> Sub(currentEmissions.total, projectedTotal),
         carReduction |-> sl.carReduction, meatDays |-> sl.meatReduction,
         energyReduction |-> sl.energyReduction,
         recyclingIncrease |-> sl.recyclingIncrease]

\* addScenario(scenario): the blob after the call
addScenario(s, scenario, now) ==
    LET data == getData(s)
    IN  saveData([data EXCEPT !.scenarios =
                      Append(@, [scenario EXCEPT !.id = now, !.createdAt = now])])

\* getScenarios()
getScenarios(s) == getData(s).scenarios

\* the habit collections the projector is run on: no habit (no ledger record),
\* known habits of every category, a habit of zero emissions, an unknown type
BaselineHabits ==
    { <<>>,
      <<TransportHabit("car_gasoline", 20, "daily")>>,
      <<TransportHabit("car_gasoline", 20, "daily"), QuantityHabit("food", "beef", 1)>>,
      <<EnergyHabit("electricity", 100), QuantityHabit("waste", "landfill", 2),
        QuantityHabit("shopping", "clothing", 1)>>,
      <<TransportHabit("bicycle", 5, "weekly_1")>>,
      <<TransportHabit("helicopter", 10, "daily")>> }

\* the blob after the habits were added one by one at the instant now
RECURSIVE StoreWith(_, _)
StoreWith(habits, now) ==
    IF habits = <<>> THEN InitialData
    ELSE addHabit(StoreWith(SubSeq(habits, 1, Len(habits) - 1), now),
                  habits[Len(habits)], now, CurrentMonth(now))

\* the scenarios page is opened on a store that holds some habits:
\* initScenariosPage shows the preview for the sliders' initial positions
InitScenario ==
    /\ clock = 1
    /\ store \in {StoreWith(habits, clock) : habits \in BaselineHabits}
    /\ last = [op |-> "init"]
    /\ sliders = [carReduction |-> 0, meatReduction |-> 0, energyReduction |-> 0,
                  recyclingIncrease |-> 0]
    /\ preview = updateScenarioResults(store, CurrentMonth(clock), sliders)
    /\ tabs = <<>>
    /\ raced = FALSE
    /\ today = TuesdayNoon

\* the input handler of a slider: the slider moved, the preview is redrawn
SliderInput(slider, value) ==
    /\ sliders[slider] # value
    /\ sliders' = [sliders EXCEPT ![slider] = value]
    /\ preview' = updateScenarioResults(store, CurrentMonth(clock), sliders')
    /\ UNCHANGED <<store, clock, last, tabs, raced, today>>

\* the click handler of createScenarioBtn, with a name typed in
CreateScenario(name) ==
    /\ name # ""
    /\ Len(store.scenarios) < MaxScenarios
    /\ store' = addScenario(store, BuildScenario(store, CurrentMonth(clock), sliders, name),
                            clock)
    /\ last' = [op |-> "createScenario", month |-> CurrentMonth(clock),
                ret |-> [BuildScenario(store, CurrentMonth(clock), sliders, name)
                            EXCEPT !.id = clock, !.createdAt = clock]]
    /\ UNCHANGED <<clock, sliders, preview, tabs, raced, today>>

NextScenario ==
    \/ \E slider \in DOMAIN SliderRange :
          \E value \in SliderRange[slider] : SliderInput(slider, value)
    \/ CreateScenario("cenario")

SpecScenario == InitScenario /\ [][NextScenario]_vars

(* ------------------------- weekly plan tracker ------------------------ *)
\* the goal lists the plan creator builds from the checked goal options
GoalSelections ==
    { <<[value |-> "transport_public", completed |-> FALSE]>>,
      <<[value |-> "transport_public", completed |-> FALSE],
        [value |-> "food_vegetarian", completed |-> FALSE]>> }

\* the goalIndex arguments: the indexes of the goals, one below and one above
GoalIndexes == -1..2

\* addWeeklyPlan(plan): the plan that is stored and returned, created at the
\* instant now = Date.now() on the Date date = new Date()
NewPlan(goals, now, date) ==
    [id |-> now, createdAt |-> now, completed |-> FALSE, progress |-> 0,
     weekStart |-> IsoDate(MondayOf(date)), weekEnd |-> IsoDate(SundayOf(date)),
     goals |-> [i \in DOMAIN goals |-> [goals[i] EXCEPT !.completed = FALSE]]]

\* addWeeklyPlan(plan): the blob after the call
addWeeklyPlan(s, goals, now, date) ==
    LET data == getData(s)
        plan == NewPlan(goals, now, date)
    IN  saveData([data EXCEPT !.weeklyPlans = Append(@, plan),
                              !.currentPlan = Num(plan.id)])

\* data.weeklyPlans.findIndex(p => p.id === planId); 0 stands for -1
FindPlanIndex(weeklyPlans, planId) ==
    IF \E i \in DOMAIN weeklyPlans : weeklyPlans[i].id = planId
    THEN CHOOSE i \in DOMAIN weeklyPlans :
            /\ weeklyPlans[i].id = planId
            /\ \A j \in 1..(i - 1) : weeklyPlans[j].id # planId
    ELSE 0

\* plan.goals.filter(g => g.completed).length
CompletedGoals(goals) == Cardinality({i \in DOMAIN goals : goals[i].completed})

\* Math.round((completedGoals / plan.goals.length) * 100)
Progress(completedGoals, length) == (200 * completedGoals + length) \div (2 * length)

\* the plan after plan.goals[goalIndex].completed = completed and the
\* recalculation of progress; completed is set when every goal is completed
ToggledPlan(plan, goalIndex, completed) ==
    LET goals == [plan.goals EXCEPT ![goalIndex + 1].completed = completed]
        completedGoals == CompletedGoals(goals)
    IN  [plan EXCEPT !.goals = goals,
                     !.progress = Progress(completedGoals, Len(goals)),
                     !.completed = IF completedGoals = Len(goals) THEN TRUE ELSE @]

\* a toggle that takes an index past the last goal as the last goal
updatePlanProgress_ClampIndex(s, planId, goalIndex, completed) ==
    LET data == getData(s)
        planIndex == FindPlanIndex(data.weeklyPlans, planId)
    IN  IF planIndex # 0 /\ goalIndex >= 0
        THEN saveData([data EXCEPT !.weeklyPlans[planIndex] =
                          ToggledPlan(data.weeklyPlans[planIndex],
                                      IF goalIndex < Len(data.weeklyPlans[planIndex].goals)
                                      THEN goalIndex
                                      ELSE Len(data.weeklyPlans[planIndex].goals) - 1,
                                      completed)])
        ELSE s

\* updatePlanProgress(planId, goalIndex, completed): the blob after the call
updatePlanProgress(s, planId, goalIndex, completed) ==
    LET data == getData(s)
        planIndex == FindPlanIndex(data.weeklyPlans, planId)
    IN  IF planIndex # 0 /\ (goalIndex + 1) \in DOMAIN data.weeklyPlans[planIndex].goals
        THEN saveData([data EXCEPT !.weeklyPlans[planIndex] =
                          ToggledPlan(data.weeklyPlans[planIndex], goalIndex, completed)])
        ELSE s

\* getCurrentPlan(): null when no plan is current
getCurrentPlan(s) ==
    LET data == getData(s)
    IN  IF ~(IsNum(data.currentPlan) /\ data.currentPlan.v # 0) THEN Null
        ELSE IF FindPlanIndex(data.weeklyPlans, data.currentPlan.v) # 0
             THEN data.weeklyPlans[FindPlanIndex(data.weeklyPlans, data.currentPlan.v)]
             ELSE Undefined

\* getPreviousPlans()
getPreviousPlans(s) ==
    LET data == getData(s)
    IN  SelectSeq(data.weeklyPlans, LAMBDA p : Num(p.id) # data.currentPlan)

AddWeeklyPlan(goals) ==
    /\ Len(store.weeklyPlans) < MaxPlans
    /\ store' = addWeeklyPlan(store, goals, clock, today)
    /\ last' = [op |-> "addWeeklyPlan", month |-> CurrentMonth(clock),
                ret |-> NewPlan(goals, clock, today)]
    /\ UNCHANGED <<clock, sliders, preview, tabs, raced, today>>

\* which of the two tests of updatePlanProgress fails: planIndex !== -1
\* ("plan"), plan.goals[goalIndex] ("goal"), or none ("")
MissKind(s, planId, goalIndex) ==
    LET data == getData(s)
        planIndex == FindPlanIndex(data.weeklyPlans, planId)
    IN  IF planIndex = 0 THEN "plan"
        ELSE IF (goalIndex + 1) \in DOMAIN data.weeklyPlans[planIndex].goals THEN ""
        ELSE "goal"

UpdatePlanProgress(planId, goalIndex, completed) ==
    /\ store' = updatePlanProgress(store, planId, goalIndex, completed)
    /\ last' = [op |-> "updatePlanProgress", month |-> CurrentMonth(clock),
                ret |-> Undefined, miss |-> MissKind(store, planId, goalIndex)]
    /\ UNCHANGED <<clock, sliders, preview, tabs, raced, today>>

NextPlan ==
    \/ Tick
    \/ \E goals \in GoalSelections : AddWeeklyPlan(goals)
    \/ \E planId \in 1..MaxMs, goalIndex \in GoalIndexes, completed \in BOOLEAN :
          UpdatePlanProgress(planId, goalIndex, completed)

SpecPlan == Init /\ [][NextPlan]_vars

(* ------------------------------ two tabs ------------------------------ *)
\* Two tabs of the application share the localStorage item.  A tab's addHabit
\* is, step by step: getData and Date.now (TabRead), push and saveData
\* (TabSave), then calculateEmissions: getHabits (TabCalcHabits), getData
\* (TabCalcData), upsert and saveData (TabCalcSave).
Tab == {"A", "B"}

\* the habits the tabs add
TabHabitInputs ==
    { TransportHabit("car_gasoline", 20, "daily"), QuantityHabit("food", "beef", 1) }

IdleTab == [pc |-> "idle", done |-> 0]

InitTabs ==
    /\ store = InitialData
    /\ clock = 1
    /\ last = [op |-> "init"]
    /\ sliders = [carReduction |-> 0, meatReduction |-> 0, energyReduction |-> 0,
                  recyclingIncrease |-> 0]
    /\ preview = [shown |-> FALSE]
    /\ tabs = [t \in Tab |-> IdleTab]
    /\ raced = FALSE
    /\ today = TuesdayNoon

\* const data = this.getData(); habit.id = Date.now();
TabRead(t, h) ==
    /\ tabs[t].pc = "idle"
    /\ tabs[t].done < MaxTabAdds
    /\ tabs' = [tabs EXCEPT ![t] = [pc |-> "read", done |-> @.done, data |-> getData(store),
                                    habit |-> [h EXCEPT !.id = clock]]]
    /\ raced' = (raced \/ \E u \in Tab \ {t} : tabs[u].pc # "idle")
    /\ UNCHANGED <<store, clock, last, sliders, preview, today>>

\* data.habits.push(habit); this.saveData(data);
TabSave(t) ==
    /\ tabs[t].pc = "read"
    /\ store' = saveData(PushHabit(tabs[t].data, tabs[t].habit))
    /\ tabs' = [tabs EXCEPT ![t] = [pc |-> "saved", done |-> @.done]]
    /\ UNCHANGED <<clock, last, sliders, preview, raced, today>>

\* calculateEmissions: const habits = this.getHabits(); and the forEach
TabCalcHabits(t) ==
    /\ tabs[t].pc = "saved"
    /\ tabs' = [tabs EXCEPT ![t] = [pc |-> "calcHabits", done |-> @.done,
                                    habits |-> getHabits(store)]]
    /\ UNCHANGED <<store, clock, last, sliders, preview, raced, today>>

\* calculateEmissions: const data = this.getData();
TabCalcData(t) ==
    /\ tabs[t].pc = "calcHabits"
    /\ tabs' = [tabs EXCEPT ![t] = [pc |-> "calcData", done |-> @.done,
                                    habits |-> @.habits, data |-> getData(store)]]
    /\ UNCHANGED <<store, clock, last, sliders, preview, raced, today>>

\* calculateEmissions: the upsert and this.saveData(data); addHabit returns
TabCalcSave(t) ==
    /\ tabs[t].pc = "calcData"
    /\ store' = saveData([tabs[t].data EXCEPT !.emissions =
                    UpsertAggregate(@, AggregateOf(tabs[t].habits, CurrentMonth(clock)))])
    /\ tabs' = [tabs EXCEPT ![t] = [pc |-> "idle", done |-> @.done + 1]]
    /\ UNCHANGED <<clock, last, sliders, preview, raced, today>>

NextTabs ==
    \/ \E t \in Tab, h \in TabHabitInputs : TabRead(t, h)
    \/ \E t \in Tab : TabSave(t)
    \/ \E t \in Tab : TabCalcHabits(t)
    \/ \E t \in Tab : TabCalcData(t)
    \/ \E t \in Tab : TabCalcSave(t)

SpecTabs == InitTabs /\ [][NextTabs]_vars

(* ======================= habit store and ledger ======================= *)

UniqueMonths(emissions) ==
    \A i, j \in DOMAIN emissions : i # j => emissions[i].month # emissions[j].month

\* C1: the monthly ledger never holds two records with the same month key,
\* whatever adds, removes and recomputes ran, in one month or across months;
\* and an operation in a month that already has its record leaves history()
\* with the same length.
C1_UniqueMonth ==
    [][/\ UniqueMonths(getMonthlyHistory(store'))
       /\ FindMonthIndex(getMonthlyHistory(store), CurrentMonth(clock)) # 0
             => Len(getMonthlyHistory(store')) = Len(getMonthlyHistory(store))
      ]_vars

\* two adds and then a recompute, all in one month that is not the first
\* month of the ledger
C1_Witness ==
    /\ last.op = "calculateEmissions"
    /\ Len(getMonthlyHistory(store)) = 2
    /\ Len(getHabits(store)) = 2
    /\ \A i \in DOMAIN getHabits(store) : CurrentMonth(getHabits(store)[i].id) = last.month

\* C2: after an add or a remove every listed habit, and the habit that add
\* returned, carries the emissions the engine computed for it.
C2_EmissionsAnnotated ==
    last.op \in {"addHabit", "deleteHabit"} =>
        /\ \A i \in DOMAIN getHabits(store) :
              getHabits(store)[i].emissions = JsonNum(HabitEmissions(getHabits(store)[i]))
        /\ last.op = "addHabit" => last.ret.emissions = HabitEmissions(last.ret)

\* C3: no two habits of the collection have the same id.
C3_UniqueIds ==
    \A i, j \in DOMAIN getHabits(store) :
        i # j => getHabits(store)[i].id # getHabits(store)[j].id

\* a habit whose factor lookup misses: unknown type, or unknown frequency
LookupMisses(habit) ==
    \/ habit.category \notin DOMAIN EMISSION_FACTORS
    \/ habit.type \notin DOMAIN EMISSION_FACTORS[habit.category]
    \/ habit.category = "transport" /\ habit.frequency \notin DOMAIN FREQUENCY_FACTORS

WithoutMisses(s) ==
    [s EXCEPT !.habits = SelectSeq(@, LAMBDA h : ~LookupMisses(h))]

\* C4: a habit whose factor lookup misses contributes zero: the record of the
\* month of the last operation has the totals of the other habits alone, and
\* they are numbers when read back.
C4_MissContributesZero ==
    last.op # "init" =>
        LET rec == getCurrentEmissions(store, last.month)
            others == Aggregate(WithoutMisses(store), last.month)
        IN  /\ rec.total = others.total
            /\ rec.byCategory = others.byCategory
            /\ IsNum(rec.total)
            /\ \A c \in DOMAIN rec.byCategory : IsNum(rec.byCategory[c])

\* C5: after an add or a remove, the ledger record of the month of the call
\* is the aggregate computed over the habits that list() returns.
C5_LedgerFollowsMutation ==
    last.op \in {"addHabit", "deleteHabit"} =>
        LET rec == getCurrentEmissions(store, last.month)
            agg == Aggregate(store, last.month)
        IN  /\ FindMonthIndex(getMonthlyHistory(store), last.month) # 0
            /\ rec.total = agg.total
            /\ rec.byCategory = agg.byCategory

\* C6: every ledger record has total = the sum of its five byCategory values,
\* and the record of the last recompute has each byCategory value equal to the
\* sum of the emissions of the habits of that category.
C6_Additivity ==
    /\ \A i \in DOMAIN getMonthlyHistory(store) :
          LET rec == getMonthlyHistory(store)[i]
          IN  /\ IsNum(rec.total)
              /\ \A c \in DOMAIN rec.byCategory : IsNum(rec.byCategory[c])
              /\ rec.total.v = rec.byCategory.transport.v + rec.byCategory.energy.v
                               + rec.byCategory.food.v + rec.byCategory.shopping.v
                               + rec.byCategory.waste.v
    /\ last.op # "init" =>
          \A c \in DOMAIN EMISSION_FACTORS :
              getCurrentEmissions(store, last.month).byCategory[c]
                  = CategorySum(getHabits(store), c)

\* the sequence without its i-th element
RemoveAt(seq, i) == SubSeq(seq, 1, i - 1) \o SubSeq(seq, i + 1, Len(seq))

\* C7: add appends the new habit at the end of list(); remove(id) deletes
\* only the habit added with that id, keeping the order of the others, and
\* leaves the collection unchanged when no habit has that id.
C7_ListIsAddedMinusRemoved ==
    [][/\ \A h \in HabitInputs :
            AddHabit(h) => getHabits(store') = Append(getHabits(store), [h EXCEPT !.id = clock])
       /\ \A id \in 1..MaxMs :
            DeleteHabit(id) =>
                IF \A i \in DOMAIN getHabits(store) : getHabits(store)[i].id # id
                THEN getHabits(store') = getHabits(store)
                ELSE \E i \in DOMAIN getHabits(store) :
                        /\ getHabits(store)[i].id = id
                        /\ getHabits(store') = RemoveAt(getHabits(store), i)
      ]_vars

(* ========================= weekly plan tracker ======================== *)

\* C8: a plan is completed if and only if every one of its goals is completed,
\* after any sequence of goal toggles.
C8_CompletedIffAllGoals ==
    \A i \in DOMAIN store.weeklyPlans :
        store.weeklyPlans[i].completed
            <=> (\A g \in DOMAIN store.weeklyPlans[i].goals :
                    store.weeklyPlans[i].goals[g].completed)

(* ========================== scenario projector ======================== *)

\* C9: when the baseline total is 0 the reductionPercent is the number 0,
\* in the preview and in every saved scenario, for all slider positions.
C9_PercentDefinedOnZeroBaseline ==
    /\ OrZero(getCurrentEmissions(store, CurrentMonth(clock)).total) = Num(0)
          => preview.reductionPercent \in {Num(0), Text("fixed1", 0)}
    /\ \A i \in DOMAIN getScenarios(store) :
          OrZero(getScenarios(store)[i].baselineEmissions) = Num(0)
              => getScenarios(store)[i].reductionPercent \in {Num(0), Text("fixed1", 0)}

\* the preview alone is guarded
C9_PreviewGuarded ==
    OrZero(getCurrentEmissions(store, CurrentMonth(clock)).total) = Num(0)
        => preview.reductionPercent = Num(0)

(* ============================== two tabs ============================== *)

\* the adds that have returned, over both tabs
RECURSIVE SumDone(_)
SumDone(T) ==
    IF T = {} THEN 0
    ELSE LET t == CHOOSE x \in T : TRUE IN tabs[t].done + SumDone(T \ {t})

AllTabsIdle == \A t \in Tab : tabs[t].pc = "idle"

\* C10: as long as no add started while another tab's add was under way (the
\* adds ran one after the other, as a single writer's do), no habit is lost:
\* the stored collection holds one habit per add that returned.  The lost
\* update of two racing tabs is the state C10_LostUpdate, which is reachable.
C10_SerialAddsLoseNothing ==
    (AllTabsIdle /\ ~raced) => Len(getHabits(store)) = SumDone(Tab)

\* both tabs' adds have returned and the stored collection lacks a habit
C10_LostUpdate ==
    /\ AllTabsIdle
    /\ \A t \in Tab : tabs[t].done >= 1
    /\ raced
    /\ Len(getHabits(store)) < SumDone(Tab)

(* ----------------------- the engine on its own ------------------------ *)
\* habits of every category, with keys of the tables, as the forms build them
EngineInputs ==
    { TransportHabit("car_gasoline", 20, "daily"),
      TransportHabit("subway", 10, "weekly_2"),
      EnergyHabit("electricity", 100),
      QuantityHabit("food", "beef", 1),
      QuantityHabit("shopping", "clothing", 1),
      QuantityHabit("waste", "landfill", 2) }

NextEngine ==
    \/ \E h \in EngineInputs : AddHabit(h)
    \/ DeleteHabit(clock)
    \/ CalculateEmissions

SpecEngine == Init /\ [][NextEngine]_vars

(* ------------------------- plans of many goals ------------------------ *)
\* the goal checkboxes selected for plans of three and of four goals
ManyGoals ==
    { <<[value |-> "transport_public", completed |-> FALSE],
        [value |-> "food_vegetarian", completed |-> FALSE],
        [value |-> "energy_saving", completed |-> FALSE]>>,
      <<[value |-> "transport_public", completed |-> FALSE],
        [value |-> "food_vegetarian", completed |-> FALSE],
        [value |-> "energy_saving", completed |-> FALSE],
        [value |-> "waste_recycling", completed |-> FALSE]>> }

NextGoals ==
    \/ Tick
    \/ \E goals \in ManyGoals : AddWeeklyPlan(goals)
    \/ \E planId \in 1..MaxMs, goalIndex \in 0..3, completed \in BOOLEAN :
          UpdatePlanProgress(planId, goalIndex, completed)

SpecGoals == Init /\ [][NextGoals]_vars

(* ------------------------- all the operations ------------------------- *)
\* scenarios.sort((a, b) => b.id - a.id): the stable sort, newest first
RECURSIVE SortNewestFirst(_)
SortNewestFirst(scenarios) ==
    IF scenarios = <<>> THEN <<>>
    ELSE LET first == CHOOSE i \in DOMAIN scenarios :
                         /\ \A j \in DOMAIN scenarios : scenarios[j].id <= scenarios[i].id
                         /\ \A j \in 1..(i - 1) : scenarios[j].id < scenarios[i].id
         IN  <<scenarios[first]>> \o
             SortNewestFirst(SubSeq(scenarios, 1, first - 1)
                             \o SubSeq(scenarios, first + 1, Len(scenarios)))

\* loadSavedScenarios(): the list shown, sorted on its own parsed copy
LoadSavedScenarios ==
    /\ last' = [op |-> "loadSavedScenarios", month |-> CurrentMonth(clock),
                ret |-> SortNewestFirst(getScenarios(store))]
    /\ UNCHANGED <<store, clock, sliders, preview, tabs, raced, today>>

\* the app is opened on a fresh store with the sliders where the user left
\* them: all at 0, or the car slider at 50
InitAll ==
    /\ store = InitialData
    /\ clock = 1
    /\ last = [op |-> "init"]
    /\ sliders \in {[carReduction |-> car, meatReduction |-> 0, energyReduction |-> 0,
                     recyclingIncrease |-> 0] : car \in SliderRange.carReduction}
    /\ preview = updateScenarioResults(store, CurrentMonth(clock), sliders)
    /\ tabs = <<>>
    /\ raced = FALSE
    /\ today = TuesdayNoon

\* every operation on habits, ledger, scenarios and plans, within one instant
NextAll ==
    \/ AddHabit(TransportHabit("car_gasoline", 20, "daily"))
    \/ DeleteHabit(clock)
    \/ CalculateEmissions
    \/ CreateScenario("cenario")
    \/ LoadSavedScenarios
    \/ AddWeeklyPlan(<<[value |-> "transport_public", completed |-> FALSE],
                       [value |-> "food_vegetarian", completed |-> FALSE]>>)
    \/ \E planId \in {clock, clock + 1}, goalIndex \in GoalIndexes, completed \in BOOLEAN :
          UpdatePlanProgress(planId, goalIndex, completed)

SpecAll == InitAll /\ [][NextAll]_vars

(* ----------------------------- week bounds ---------------------------- *)
\* the instants of eight days from Monday 1970-01-12, at 0, 6, 12 and 18 h UTC
Instants == (4 * 11)..(4 * 19 - 1)

\* local time from 12 h behind UTC to 12 h ahead of it
Offsets == -2..2

\* the plans page is opened at some instant on a host in some time zone
InitWeek ==
    /\ store = InitialData
    /\ clock = 1
    /\ last = [op |-> "init"]
    /\ sliders = [carReduction |-> 0, meatReduction |-> 0, energyReduction |-> 0,
                  recyclingIncrease |-> 0]
    /\ preview = [shown |-> FALSE]
    /\ tabs = <<>>
    /\ raced = FALSE
    /\ today \in [utc : Instants, offset : Offsets]

NextWeek ==
    \/ \E goals \in GoalSelections : AddWeeklyPlan(goals)
    \/ \E completed \in BOOLEAN : UpdatePlanProgress(clock, 0, completed)

SpecWeek == InitWeek /\ [][NextWeek]_vars

(* --------------------------- previous plans --------------------------- *)
\* loadPreviousPlans(): the plans listed, sorted newest first by id on the
\* array getPreviousPlans returned, the first five of them
loadPreviousPlans(s) ==
    LET previousPlans == SortNewestFirst(getPreviousPlans(s))
    IN  SubSeq(previousPlans, 1, IF Len(previousPlans) < 5 THEN Len(previousPlans) ELSE 5)

\* the blob after one plan was created at each of the instants, in order
RECURSIVE PlansCreatedAt(_)
PlansCreatedAt(instants) ==
    IF instants = <<>> THEN InitialData
    ELSE addWeeklyPlan(PlansCreatedAt(SubSeq(instants, 1, Len(instants) - 1)),
                       <<[value |-> "transport_public", completed |-> FALSE]>>,
                       instants[Len(instants)], TuesdayNoon)

\* the instants at which the plans of earlier weeks were created
EarlierPlans == {<<>>, <<1>>, <<1, 2>>, <<1, 1, 2>>, <<1, 2, 3>>}

\* the plans page is opened on a store that holds the plans of earlier weeks
InitPrevious ==
    /\ \E instants \in EarlierPlans :
          /\ store = PlansCreatedAt(instants)
          /\ clock = IF instants = <<>> THEN 1 ELSE instants[Len(instants)]
    /\ last = [op |-> "init"]
    /\ sliders = [carReduction |-> 0, meatReduction |-> 0, energyReduction |-> 0,
                  recyclingIncrease |-> 0]
    /\ preview = [shown |-> FALSE]
    /\ tabs = <<>>
    /\ raced = FALSE
    /\ today = TuesdayNoon

\* getPreviousPlans() as the store returns it, and the list the page shows
LoadPreviousPlans ==
    /\ last' = [op |-> "loadPreviousPlans", month |-> CurrentMonth(clock),
                ret |-> getPreviousPlans(store), shown |-> loadPreviousPlans(store)]
    /\ UNCHANGED <<store, clock, sliders, preview, tabs, raced, today>>

NextPrevious ==
    \/ Tick
    \/ \E goals \in GoalSelections : AddWeeklyPlan(goals)
    \/ \E planId \in 1..MaxMs, completed \in BOOLEAN :
          UpdatePlanProgress(planId, 0, completed)
    \/ LoadPreviousPlans

SpecPrevious == InitPrevious /\ [][NextPrevious]_vars

(* ---------------------- absent and unparseable blob ------------------- *)
\* localStorage holds no item 'carbonScopeData': getItem returns null
Absent == [raw |-> "absent"]

\* localStorage holds a text that JSON.parse rejects
Corrupt == [raw |-> "corrupt"]

\* the blob is a parseable object written by init() or saveData()
Present(s) == s # Absent /\ s # Corrupt

\* init(): writes the initial data only when getItem returns nothing
init(s) == IF s = Absent THEN InitialData ELSE s

\* the operations that read a collection of the parsed object without || []:
\* on the object {} that getData() yields for an absent blob, the property is
\* undefined and the call of push, filter, find or findIndex on it throws
ThrowsOnEmptyObject ==
    {"addHabit", "deleteHabit", "calculateEmissions", "getCurrentEmissions",
     "addScenario", "createScenario", "addWeeklyPlan", "updatePlanProgress",
     "getPreviousPlans"}

\* the operations that read with || [] or test the property first
ReadsWithDefault == {"getHabits", "getMonthlyHistory", "getScenarios", "getCurrentPlan"}

\* whether the operation op, run on the blob s, throws: JSON.parse throws on
\* the unparseable text in every operation, the absent blob parses as {}
Throws(op, s) ==
    \/ s = Corrupt
    \/ s = Absent /\ op \in ThrowsOnEmptyObject

\* what a read operation returns when it does not throw
ReadResult(op, s, month) ==
    CASE op = "getHabits" -> IF s = Absent THEN <<>> ELSE getHabits(s)
      [] op = "getMonthlyHistory" -> IF s = Absent THEN <<>> ELSE getMonthlyHistory(s)
      [] op = "getScenarios" -> IF s = Absent THEN <<>> ELSE getScenarios(s)
      [] op = "getCurrentPlan" -> IF s = Absent THEN Null ELSE getCurrentPlan(s)
      [] op = "getCurrentEmissions" -> getCurrentEmissions(s, month)
      [] op = "getPreviousPlans" -> getPreviousPlans(s)

\* the page was loaded with no blob or an unparseable one in localStorage
InitStorage ==
    /\ store \in {Absent, Corrupt}
    /\ clock = 1
    /\ last = [op |-> "load"]
    /\ sliders = [carReduction |-> 0, meatReduction |-> 0, energyReduction |-> 0,
                  recyclingIncrease |-> 0]
    /\ preview = [shown |-> FALSE]
    /\ tabs = <<>>
    /\ raced = FALSE
    /\ today = TuesdayNoon

\* CarbonStorage.init()
RunInit ==
    /\ store' = init(store)
    /\ last' = [op |-> "init", threw |-> FALSE]
    /\ UNCHANGED <<clock, sliders, preview, tabs, raced, today>>

\* the operation threw before any saveData: the blob is as it was
Throw(op) ==
    /\ Throws(op, store)
    /\ store' = store
    /\ last' = [op |-> op, threw |-> TRUE]
    /\ UNCHANGED <<clock, sliders, preview, tabs, raced, today>>

\* a read operation
ReadOp(op) ==
    \/ Throw(op)
    \/ /\ ~Throws(op, store)
       /\ last' = [op |-> op, threw |-> FALSE,
                   ret |-> ReadResult(op, store, CurrentMonth(clock))]
       /\ UNCHANGED <<store, clock, sliders, preview, tabs, raced, today>>

\* a writing operation: it throws, or runs as on a present blob
WriteOp(op, Run) ==
    \/ Throw(op)
    \/ Present(store) /\ Run

NextStorage ==
    \/ RunInit
    \/ \E op \in ReadsWithDefault \cup {"getCurrentEmissions", "getPreviousPlans"} :
          ReadOp(op)
    \/ \E h \in TabHabitInputs : WriteOp("addHabit", AddHabit(h))
    \/ WriteOp("deleteHabit", DeleteHabit(clock))
    \/ WriteOp("calculateEmissions", CalculateEmissions)
    \/ WriteOp("createScenario", CreateScenario("cenario"))
    \/ \E goals \in GoalSelections : WriteOp("addWeeklyPlan", AddWeeklyPlan(goals))
    \/ \E goalIndex \in GoalIndexes :
          WriteOp("updatePlanProgress", UpdatePlanProgress(clock, goalIndex, TRUE))

SpecStorage == InitStorage /\ [][NextStorage]_vars

(* ====================== ledger frame and recompute ==================== *)

\* C11: an operation run in month M changes no ledger record of another
\* month, and no operation removes a ledger record or moves it.
C11_PastMonthsFrozen ==
    [][LET before == getMonthlyHistory(store)
           after == getMonthlyHistory(store')
       IN  /\ Len(after) >= Len(before)
           /\ \A i \in DOMAIN before :
                 /\ after[i].month = before[i].month
                 /\ before[i].month # CurrentMonth(clock) => after[i] = before[i]
      ]_vars

\* a habit was removed in the second month of the ledger
C11_Witness ==
    /\ last.op = "deleteHabit"
    /\ Len(getMonthlyHistory(store)) = 2
    /\ getMonthlyHistory(store)[2].month = last.month
    /\ getMonthlyHistory(store)[1].total # getMonthlyHistory(store)[2].total

\* C15: a recompute that follows a recompute of the same month, with no habit
\* mutation in between, returns the same total and leaves the persisted state
\* as it was; no recompute adds or removes a habit.
C15_RecomputeIdempotent ==
    [][(last'.op = "calculateEmissions" /\ CalculateEmissions) =>
          /\ getHabits(store') = getHabits(store)
          /\ (last.op = "calculateEmissions" /\ last.month = CurrentMonth(clock))
                => (store' = store /\ last'.ret = last.ret)
      ]_vars

\* a second recompute in a row, over two habits
C15_Witness ==
    /\ last.op = "calculateEmissions"
    /\ last.again
    /\ Len(getHabits(store)) = 2

(* ====================== preview against saved scenario ================ *)

\* the number a stored or defaulted amount counts as (null and a missing
\* property count as 0 once they went through || 0 or a subtraction)
AmountOf(x) == IF IsNum(x) THEN x.v ELSE 0

\* p = baseline.total - transportCut - foodCut - energyCut - wasteCut, in
\* grams, for the parameters car, energy, recycling in 1/100 and meat in days
ProjectionOf(current, car, meat, energy, recycling) ==
    AmountOf(current.total)
    - (AmountOf(current.byCategory.transport) * car) \div 200
    - meat * 2 * Kg
    - (AmountOf(current.byCategory.energy) * energy) \div 100
    - (AmountOf(current.byCategory.waste) * recycling * 4) \div 500

\* p for the sliders as they stand
SliderProjection ==
    ProjectionOf(getCurrentEmissions(store, CurrentMonth(clock)), sliders.carReduction,
                 sliders.meatReduction, sliders.energyReduction, sliders.recyclingIncrease)

\* p for the parameters a saved scenario records
SavedProjection(sc) ==
    ProjectionOf(getCurrentEmissions(store, CurrentMonth(clock)), sc.carReduction,
                 sc.meatDays, sc.energyReduction, sc.recyclingIncrease)

\* C12: the preview shows max(0, p) and never a negative projection; a saved
\* scenario stores p unclamped and reductionKg = baseline.total - p; for the
\* same parameters the two projections differ exactly when p < 0.
C12_PreviewClampedSavedNot ==
    LET current == getCurrentEmissions(store, CurrentMonth(clock))
        p == SliderProjection
    IN  /\ preview.shown
        /\ preview.projectedEmissions = ToFixed1(Num(IF p > 0 THEN p ELSE 0))
        /\ preview.projectedEmissions.s = "fixed1"
        /\ preview.projectedEmissions.v >= 0
        /\ \A i \in DOMAIN getScenarios(store) :
              LET sc == getScenarios(store)[i]
                  q == SavedProjection(sc)
              IN  /\ sc.projectedEmissions = Num(q)
                  /\ sc.reductionKg = Num(AmountOf(current.total) - q)
                  /\ (sc.description = <<sliders.carReduction, sliders.meatReduction,
                                         sliders.energyReduction, sliders.recyclingIncrease>>)
                        => ((ToFixed1(sc.projectedEmissions) # preview.projectedEmissions)
                              <=> q < 0)

\* a scenario saved with a negative projection while the preview, for the same
\* sliders, shows 0.0
C12_Witness ==
    /\ preview.projectedEmissions = Text("fixed1", 0)
    /\ \E i \in DOMAIN getScenarios(store) :
          /\ getScenarios(store)[i].projectedEmissions.v < 0
          /\ getScenarios(store)[i].meatDays = sliders.meatReduction
          /\ getScenarios(store)[i].carReduction = sliders.carReduction
          /\ getScenarios(store)[i].energyReduction = sliders.energyReduction
          /\ getScenarios(store)[i].recyclingIncrease = sliders.recyclingIncrease

(* ========================== projector formula ========================= *)

\* the projector's results for one saved scenario, against ProjectionOf
ProjectorHolds(sc) ==
    LET zeros == /\ sc.carReduction = 0 /\ sc.meatDays = 0
                 /\ sc.energyReduction = 0 /\ sc.recyclingIncrease = 0
        current == getCurrentEmissions(store, CurrentMonth(clock))
    IN  /\ sc.projectedEmissions = Num(SavedProjection(sc))
        /\ zeros => sc.projectedEmissions = sc.baselineEmissions
        /\ (/\ sc.baselineEmissions = Num(180 * Kg)
            /\ current.byCategory.transport = Num(72 * Kg)
            /\ sc.carReduction = 50 /\ sc.meatDays = 0
            /\ sc.energyReduction = 0 /\ sc.recyclingIncrease = 0)
              => /\ sc.projectedEmissions = Num(162 * Kg)
                 /\ sc.reductionPercent = Text("fixed1", 100)

\* the preview's results for the sliders as they stand
PreviewHolds ==
    LET zeros == /\ sliders.carReduction = 0 /\ sliders.meatReduction = 0
                 /\ sliders.energyReduction = 0 /\ sliders.recyclingIncrease = 0
        p == SliderProjection
    IN  /\ preview.projectedEmissions = ToFixed1(Num(IF p > 0 THEN p ELSE 0))
        /\ zeros => preview.projectedEmissions = preview.currentEmissions
        /\ (/\ preview.currentEmissions = Text("fixed1", 1800)
            /\ getCurrentEmissions(store, CurrentMonth(clock)).byCategory.transport
                  = Num(72 * Kg)
            /\ sliders.carReduction = 50 /\ sliders.meatReduction = 0
            /\ sliders.energyReduction = 0 /\ sliders.recyclingIncrease = 0)
              => /\ preview.projectedEmissions = Text("fixed1", 1620)
                 /\ preview.reductionPercent = Text("fixed1", 100)

\* C17: preview and save path compute projected = total - transport * 0.5 *
\* carReduction - meatDays * 0.5 * 4 - energy * energyReduction - waste * 0.8 *
\* recyclingIncrease; with all four parameters 0 the projection equals
\* baseline.total exactly; baseline {total 180, transport 72} with
\* carReduction 0.5 gives 162 and reductionPercent 10.0.
C17_ProjectorFormula ==
    /\ PreviewHolds
    /\ \A i \in DOMAIN getScenarios(store) : ProjectorHolds(getScenarios(store)[i])

\* the same over the scenarios whose baseline total is a number
C17_FormulaOnNumericBaseline ==
    /\ PreviewHolds
    /\ \A i \in DOMAIN getScenarios(store) :
          IsNum(getScenarios(store)[i].baselineEmissions)
             => ProjectorHolds(getScenarios(store)[i])

\* the worked example was saved: 180 projected to 162, 10.0 percent
C17_ExampleSaved ==
    \E i \in DOMAIN getScenarios(store) :
       /\ getScenarios(store)[i].baselineEmissions = Num(180 * Kg)
       /\ getScenarios(store)[i].carReduction = 50
       /\ getScenarios(store)[i].projectedEmissions = Num(162 * Kg)
       /\ getScenarios(store)[i].reductionPercent = Text("fixed1", 100)

(* ============================ current plan ============================ *)

\* C13: once a plan was created, the most recently created plan is the current
\* one: getCurrentPlan returns it, and getPreviousPlans returns every other
\* stored plan and never that one.
C13_CurrentIsMostRecent ==
    LET weeklyPlans == getData(store).weeklyPlans
        n == Len(weeklyPlans)
    IN  n > 0 =>
          /\ getCurrentPlan(store) = weeklyPlans[n]
          /\ getPreviousPlans(store) = SubSeq(weeklyPlans, 1, n - 1)

\* the same when the plans were created at distinct instants
C13_CurrentWhenIdsDiffer ==
    LET weeklyPlans == getData(store).weeklyPlans
        n == Len(weeklyPlans)
    IN  (n > 0 /\ \A i, j \in 1..n : i # j => weeklyPlans[i].id # weeklyPlans[j].id) =>
          /\ getCurrentPlan(store) = weeklyPlans[n]
          /\ getPreviousPlans(store) = SubSeq(weeklyPlans, 1, n - 1)

(* ============================ plan progress =========================== *)

\* r = Math.round(c / n * 100): the integer r with r <= c/n*100 + 1/2 < r + 1
IsRoundedShare(r, c, n) ==
    /\ 2 * n * r <= 200 * c + n
    /\ 200 * c + n < 2 * n * r + 2 * n

\* progress is the rounded share of completed goals, an integer in 0..100,
\* and a plan whose goals are all completed is completed
ProgressHolds(plan) ==
    LET n == Len(plan.goals)
        c == Cardinality({i \in 1..n : plan.goals[i].completed})
    IN  /\ plan.progress \in 0..100
        /\ IsRoundedShare(plan.progress, c, n)
        /\ c = n => plan.completed

\* C18: after every toggle of an existing goal, progress = round(completed
\* goals / goals * 100), an integer in 0..100; a new plan has progress 0 and no
\* goal completed; with 4 goals, 2 completed give progress 50 and completed
\* false, and 4 completed give completed true.
C18_ProgressAndCompleted ==
    LET weeklyPlans == getData(store).weeklyPlans
    IN  /\ \A i \in DOMAIN weeklyPlans :
              LET plan == weeklyPlans[i]
                  c == Cardinality({k \in DOMAIN plan.goals : plan.goals[k].completed})
              IN  /\ ProgressHolds(plan)
                  /\ (Len(plan.goals) = 4 /\ c = 2)
                        => (plan.progress = 50 /\ plan.completed = FALSE)
                  /\ (Len(plan.goals) = 4 /\ c = 4) => plan.completed = TRUE
        /\ last.op = "addWeeklyPlan" =>
              /\ weeklyPlans[Len(weeklyPlans)].progress = 0
              /\ \A k \in DOMAIN weeklyPlans[Len(weeklyPlans)].goals :
                    ~weeklyPlans[Len(weeklyPlans)].goals[k].completed

\* the progress part alone, with completed only required when all goals are
C18_ProgressIsRoundedShare ==
    /\ \A i \in DOMAIN getData(store).weeklyPlans :
          ProgressHolds(getData(store).weeklyPlans[i])
    /\ last.op = "addWeeklyPlan" =>
          getData(store).weeklyPlans[Len(getData(store).weeklyPlans)].progress = 0

\* thirds were rounded: one goal of three gives 33, two give 67
C18_ThirdsRounded ==
    \E i, j \in DOMAIN getData(store).weeklyPlans :
       /\ getData(store).weeklyPlans[i].progress = 33
       /\ getData(store).weeklyPlans[j].progress = 67

(* ========================== category rules ============================ *)

\* the monthly emissions of a habit by its category's rule, in grams
RuleEmissions(h) ==
    CASE h.category = "transport" ->
            h.distance.v * FREQUENCY_FACTORS[h.frequency] * EMISSION_FACTORS.transport[h.type]
      [] h.category = "energy" -> h.consumption.v * EMISSION_FACTORS.energy[h.type]
      [] h.category = "food" -> h.quantity.v * 4 * EMISSION_FACTORS.food[h.type]
      [] h.category = "shopping" -> h.quantity.v * EMISSION_FACTORS.shopping[h.type]
      [] h.category = "waste" -> h.quantity.v * 4 * EMISSION_FACTORS.waste[h.type]

\* the sum of the rule's emissions over the habits of a category
RECURSIVE RuleSum(_, _)
RuleSum(habits, cats) ==
    IF habits = <<>> THEN 0
    ELSE (IF Head(habits).category \in cats THEN RuleEmissions(Head(habits)) ELSE 0)
         + RuleSum(Tail(habits), cats)

Categories == {"transport", "energy", "food", "shopping", "waste"}

\* what a habit is, apart from its id
Same(h, template) == [h EXCEPT !.id = 0] = template

\* C16: for habits with known type and frequency the recompute gives each
\* habit the emissions of its category's rule (transport: distance x frequency
\* multiplier x factor; energy: consumption x factor; food and waste:
\* quantity x 4 x factor; shopping: quantity x factor), and the month's record
\* sums them; car_gasoline 20 daily with beef 1 gives 72, 108 and 180.
C16_CategoryRules ==
    LET habits == getHabits(store)
        record == getCurrentEmissions(store, CurrentMonth(clock))
    IN  /\ \A i \in DOMAIN habits :
              AnnotateHabits(habits)[i].emissions = Num(RuleEmissions(habits[i]))
        /\ last.op # "init" =>
              /\ \A c \in Categories : record.byCategory[c] = Num(RuleSum(habits, {c}))
              /\ record.total = Num(RuleSum(habits, Categories))
        /\ (/\ Len(habits) = 2
            /\ Same(habits[1], TransportHabit("car_gasoline", 20, "daily"))
            /\ Same(habits[2], QuantityHabit("food", "beef", 1)))
              => /\ record.byCategory.transport = Num(72 * Kg)
                 /\ record.byCategory.food = Num(108 * Kg)
                 /\ record.total = Num(180 * Kg)

\* the worked example was recomputed: transport 72, food 108, total 180
C16_Witness ==
    /\ Len(getHabits(store)) = 2
    /\ Same(getHabits(store)[1], TransportHabit("car_gasoline", 20, "daily"))
    /\ Same(getHabits(store)[2], QuantityHabit("food", "beef", 1))
    /\ last.op = "calculateEmissions"
    /\ getMonthlyHistory(store)[1].total = Num(180 * Kg)

(* ====================== absent or unparseable blob ==================== *)

\* the last operation propagated an error to its caller
Threw(l) == "threw" \in DOMAIN l /\ l.threw

\* C14: on an absent or unparseable blob no operation of the store propagates
\* an error, each behaves as on the empty-collections default; and init leaves
\* a blob that is already present unchanged.
C14_NoErrorOnBadBlob ==
    /\ ~Threw(last)
    /\ (store \in {Absent, Corrupt} /\ "ret" \in DOMAIN last)
          => last.ret = ReadResult(last.op, InitialData, CurrentMonth(clock))

\* init writes the initial data when no blob is there and leaves every other
\* blob as it is
C14_InitKeepsPresentBlob ==
    [][RunInit => (IF store = Absent THEN store' = InitialData ELSE store' = store)]_vars

\* on the absent blob the reads that default with || [] return the empty
\* default and do not throw
C14_DefaultedReads ==
    (store = Absent /\ last.op \in ReadsWithDefault)
       => (~Threw(last) /\ last.ret = ReadResult(last.op, InitialData, CurrentMonth(clock)))

(* ======================= toggles that address nothing ================= *)

\* no stored plan has the id planId, or the plan it names has no goal at
\* goalIndex (negative, or past the last goal)
AddressesNothing(planId, goalIndex) ==
    \A i \in DOMAIN getData(store).weeklyPlans :
       getData(store).weeklyPlans[i].id = planId
          => goalIndex \notin 0..(Len(getData(store).weeklyPlans[i].goals) - 1)

\* C19: a goal toggle with a planId that no stored plan has, or with a
\* goalIndex that is negative or too large, leaves the whole persisted state
\* unchanged: plans, current plan id, habits, ledger and scenarios.
C19_MissIsNoOp ==
    [][\A planId \in {clock, clock + 1}, goalIndex \in GoalIndexes, completed \in BOOLEAN :
          (AddressesNothing(planId, goalIndex)
             /\ UpdatePlanProgress(planId, goalIndex, completed))
            => store' = store
      ]_vars

\* a toggle past the last goal was made on a store that holds habits, a ledger
\* record, a scenario and a plan with a completed goal
C19_Witness ==
    /\ last.op = "updatePlanProgress"
    /\ last.miss = "goal"
    /\ getHabits(store) # <<>>
    /\ getMonthlyHistory(store) # <<>>
    /\ getScenarios(store) # <<>>
    /\ \E i \in DOMAIN getData(store).weeklyPlans :
          getData(store).weeklyPlans[i].progress = 50

(* ========================== saved scenarios =========================== *)

NewestFirst(list, stored) ==
    \E pos \in [DOMAIN list -> DOMAIN stored] :
       /\ \A i \in DOMAIN list : stored[pos[i]] = list[i]
       /\ \A i, j \in DOMAIN list : i < j => pos[i] > pos[j]

\* C21: getPreviousPlans returns the stored plans other than the current one,
\* most recent first: of any two plans returned, the one created later comes
\* first.
C21_PreviousNewestFirst ==
    last.op = "loadPreviousPlans" =>
       /\ \A i \in DOMAIN getData(store).weeklyPlans :
             Num(getData(store).weeklyPlans[i].id) # getData(store).currentPlan
                => \E k \in DOMAIN last.ret : last.ret[k] = getData(store).weeklyPlans[i]
       /\ NewestFirst(last.ret, getData(store).weeklyPlans)

\* the list the page shows is newest first when the previous plans were
\* created at distinct instants
C21_ShownNewestFirstWhenIdsDiffer ==
    (/\ last.op = "loadPreviousPlans"
     /\ \A i, j \in DOMAIN last.ret : i # j => last.ret[i].id # last.ret[j].id)
       => NewestFirst(last.shown, getData(store).weeklyPlans)

\* the list the page shows is newest first
C21_ShownNewestFirst ==
    last.op = "loadPreviousPlans" => NewestFirst(last.shown, getData(store).weeklyPlans)

(* ============================ week bounds ============================= *)

\* the day of the week of a calendar day: 0 is Sunday, 1 is Monday
Weekday(day) == (day + 4) % 7

\* the Monday of the week, Monday to Sunday, that holds the calendar day
MondayOfWeek(day) == CHOOSE m \in (day - 6)..day : Weekday(m) = 1

\* C22: whatever the day of the week, the time of day and the offset of local
\* time from UTC at creation, the stored plan has weekStart = the Monday of the
\* week that holds the creation date and weekEnd = weekStart + 6 days, a Sunday.
C22_WeekIsMondayToSunday ==
    \A i \in DOMAIN getData(store).weeklyPlans :
       LET plan == getData(store).weeklyPlans[i]
       IN  /\ plan.weekStart = MondayOfWeek(LocalDay(today))
           /\ plan.weekEnd = plan.weekStart + 6
           /\ Weekday(plan.weekEnd) = 0

\* the same with the creation date taken in UTC
C22_WeekOfUTCDate ==
    \A i \in DOMAIN getData(store).weeklyPlans :
       LET plan == getData(store).weeklyPlans[i]
       IN  /\ plan.weekStart = MondayOfWeek(IsoDate(today))
           /\ plan.weekEnd = plan.weekStart + 6
           /\ Weekday(plan.weekEnd) = 0

\* weekEnd is six days after weekStart in every zone
C22_WeekEndSixDaysAfter ==
    \A i \in DOMAIN getData(store).weeklyPlans :
       getData(store).weeklyPlans[i].weekEnd = getData(store).weeklyPlans[i].weekStart + 6

\* on a host whose local time is UTC the bounds are the Monday and the Sunday
C22_WeekWhenLocalIsUTC ==
    today.offset = 0 =>
       \A i \in DOMAIN getData(store).weeklyPlans :
          LET plan == getData(store).weeklyPlans[i]
          IN  /\ plan.weekStart = MondayOfWeek(LocalDay(today))
              /\ plan.weekEnd = plan.weekStart + 6
              /\ Weekday(plan.weekEnd) = 0

====
